---- MODULE Spec2Model ----
(***************************************************************************)
(* job_bot.py: one interactive run of the "Enterprise Hunter" pipeline.    *)
(*                                                                         *)
(*   parse_user_intent -> run_hybrid_search (search_enterprise_google,     *)
(*   search_adzuna, dedup by URL) -> ai_analyze_job per listing ->         *)
(*   filter / sort / head -> send_jobs_email -> status + result display.   *)
(*                                                                         *)
(* Python values:  None is the record None; a dict is a function whose     *)
(* DOMAIN is its key set (the empty dict is <<>>); a list is a sequence;   *)
(* an uncaught exception ends the run in pc = "crashed_gate" (KeyError at  *)
(* line 265-266), "crashed_search" (build() at line 151) or                *)
(* "crashed_select" (TypeError at line 285).  A listing keeps the fields   *)
(* Title, Location, Salary, URL, Source (Company and Description are       *)
(* carried through unchanged by every step and left out).                  *)
(***************************************************************************)
EXTENDS Integers, Sequences, FiniteSets, TLC

VARIABLES
    pc,                \* position of the script / submitted handler
    googleKey,         \* GOOGLE_API_KEY is set (st.secrets.get, line 22)
    statusLabel,       \* label of st.status (line 260, 289, 298, 300)
    statusState,       \* state of st.status
    successMsg,        \* text of st.success (line 290), "" when not shown
    planner,           \* what the planner completion call did (ghost)
    criteria,          \* return value of parse_user_intent
    target_countries,  \* run_hybrid_search locals (lines 187-189)
    specific_keywords,
    broad_keywords,
    k,                 \* index of the next adapter call of the loop nest
    all_results,       \* run_hybrid_search accumulator
    seen_urls,         \* run_hybrid_search set of seen URLs
    produced,          \* every listing the adapters returned, in order (ghost)
    calls,             \* the adapter invocations made, in order (ghost)
    lastCall,          \* what the last adapter invocation did (ghost)
    raw_jobs,          \* return value of run_hybrid_search
    analyzed,          \* scored listings (line 272-282)
    scoring,           \* per scored listing: did the scoring call fail (ghost)
    df,                \* the selected rows (line 285)
    emailLog,          \* return values of send_jobs_email, in order (ghost)
    displayed          \* rows shown in expanders (lines 292-296)

vars == <<pc, googleKey, statusLabel, statusState, successMsg, planner,
          criteria, target_countries, specific_keywords, broad_keywords, k,
          all_results, seen_urls, produced, calls, lastCall, raw_jobs,
          analyzed, scoring, df, emailLog, displayed>>

(***************************************************************************)
(* Bounds of the model and constants of the program.                       *)
(***************************************************************************)
MaxItems == 1        \* items in one HTTP response of a listing source
RunLen == 26         \* length of a long run of equal scores (SpecSelect)

CountryCap == 3      \* criteria.get('countries', ['us'])[:3]
KeywordCap == 2      \* [...][:2]
MinScore == 40       \* df['Match %'] > 40
HeadCount == 50      \* .head(50)
NumDomains == 31     \* len(ENTERPRISE_DOMAINS)
SampleSize == 15     \* random.sample(ENTERPRISE_DOMAINS, min(15, ...))
ChunkSize == 5       \* target_domains[i:i + 5]

(***************************************************************************)
(* Python helpers.                                                         *)
(***************************************************************************)
None == [none |-> TRUE]
EmptyDict == <<>>

\* d.get(key, default)
Get(d, key, default) == IF key \in DOMAIN d THEN d[key] ELSE default

\* seq[:n]
Take(seq, n) == SubSeq(seq, 1, IF Len(seq) < n THEN Len(seq) ELSE n)

\* v is None, for v None or a dict
IsNone(v) == "none" \in DOMAIN v

\* truth value of None or a dict: None and the empty dict are falsy
Truthy(v) == ~IsNone(v) /\ DOMAIN v # {}

\* truth value of a list: the empty list is falsy
TruthyList(l) == Len(l) > 0

Min2(a, b) == IF a < b THEN a ELSE b

\* str.lower() and str.upper() on the country strings of the model
Lower(c) ==
    CASE c = "USA" -> "usa"
      [] OTHER -> c

Upper(c) ==
    CASE c = "us" -> "US"
      [] c = "gb" -> "GB"
      [] c = "de" -> "DE"
      [] c = "fr" -> "FR"
      [] OTHER -> c

\* COUNTRY_MAP.get(country.lower(), country.lower())
COUNTRY_MAP(c) ==
    CASE c = "usa" -> "us"
      [] c = "united states" -> "us"
      [] c = "australia" -> "au"
      [] c = "uk" -> "gb"
      [] c = "germany" -> "de"
      [] c = "canada" -> "ca"
      [] c = "france" -> "fr"
      [] c = "netherlands" -> "nl"
      [] OTHER -> c

(***************************************************************************)
(* What the outside world can answer.                                      *)
(***************************************************************************)
SeqsUpTo(S, n) == UNION {[1..m -> S] : m \in 0..n}

\* The planner completion: the call raises (transport error, content that is
\* not JSON), or json.loads yields a dict.
Plans ==
    { EmptyDict,
      [specific_keywords |-> <<"ad architect">>, broad_keywords |-> <<"identity">>],
      [countries |-> <<"USA">>, specific_keywords |-> <<"ad architect">>],
      [countries |-> <<>>, specific_keywords |-> <<"ad architect">>,
       broad_keywords |-> <<"identity">>],
      [countries |-> <<"USA">>, broad_keywords |-> <<"identity">>],
      [countries |-> <<"USA">>, specific_keywords |-> <<"ad architect">>,
       broad_keywords |-> <<"identity">>],
      [countries |-> <<"USA", "uk", "de", "fr">>,
       specific_keywords |-> <<"ad architect">>, broad_keywords |-> <<>>],
      [countries |-> <<"uk">>,
       specific_keywords |-> <<"ad architect", "iam lead", "ldap">>,
       broad_keywords |-> <<>>],
      [countries |-> <<"uk">>, specific_keywords |-> <<>>,
       broad_keywords |-> <<"identity", "infrastructure", "directory">>] }

PlannerOutcomes ==
    {[raised |-> TRUE, content |-> None]}
        \cup {[raised |-> FALSE, content |-> p] : p \in Plans}

\* Adzuna result items (dicts).  An item whose 'company' is null makes
\* item.get('company', {}).get(...) raise.
AdzunaItems ==
    { [title |-> "Architect", redirect_url |-> "u1", salary_min |-> "50000"],
      [title |-> "Engineer", redirect_url |-> "u2"],
      [title |-> "Broken", redirect_url |-> "u2", company |-> None] }

\* One requests.get + resp.json(): it raises, or yields {'results': items}.
AdzunaResponses ==
    {[error |-> TRUE, items |-> <<>>]}
        \cup {[error |-> FALSE, items |-> s] : s \in SeqsUpTo(AdzunaItems, MaxItems)}

\* Custom-search result items.  The adapter indexes title, displayLink,
\* snippet and link; an item lacking one raises KeyError.
GoogleItems ==
    { [title |-> "Manager | Chase", displayLink |-> "chase", snippet |-> "s",
       link |-> "u1"],
      [title |-> "Director - NY", displayLink |-> "chase", snippet |-> "s",
       link |-> "u1"],
      [title |-> "Broken"] }

\* One service.cse().list(...).execute(): it raises, or yields {'items': items}.
GoogleResponses ==
    {[error |-> TRUE, items |-> <<>>]}
        \cup {[error |-> FALSE, items |-> s] : s \in SeqsUpTo(GoogleItems, MaxItems)}

\* len(domain_chunks): the sample of min(15, len(ENTERPRISE_DOMAINS)) domains
\* cut into chunks of 5
NumChunks == (Min2(SampleSize, NumDomains) + ChunkSize - 1) \div ChunkSize

\* One call of search_enterprise_google as the world sees it: build() may
\* raise, and each chunk's query gets its own response.
GoogleWorlds ==
    {[build |-> "raise", chunks |-> <<>>]}
        \cup {[build |-> "ok", chunks |-> c] : c \in [1..NumChunks -> GoogleResponses]}

(***************************************************************************)
(* parse_user_intent                                                       *)
(***************************************************************************)
\* parse_user_intent with an except branch that falls back to a default plan
parse_user_intent_default(outcome) ==
    IF outcome.raised
    THEN [countries |-> <<"us">>, specific_keywords |-> <<"jobs">>,
          broad_keywords |-> <<>>]
    ELSE outcome.content

parse_user_intent(outcome) ==
    IF outcome.raised THEN None ELSE outcome.content

(***************************************************************************)
(* search_adzuna                                                           *)
(***************************************************************************)
AdzunaItemRaises(item) == IsNone(Get(item, "company", EmptyDict))

AdzunaListing(item, country) ==
    [ Title    |-> Get(item, "title", "None"),
      Location |-> Upper(country),
      Salary   |-> Get(item, "salary_min", "0"),
      URL      |-> Get(item, "redirect_url", "None"),
      Source   |-> "Adzuna" ]

\* the for loop of lines 132-141: results appended until an item raises
RECURSIVE AdzunaLoop(_, _)
AdzunaLoop(items, country) ==
    IF items = <<>> \/ AdzunaItemRaises(Head(items)) THEN <<>>
    ELSE <<AdzunaListing(Head(items), country)>> \o AdzunaLoop(Tail(items), country)

search_adzuna(term, country, resp) ==
    IF resp.error THEN <<>> ELSE AdzunaLoop(resp.items, country)

(***************************************************************************)
(* search_enterprise_google                                                *)
(***************************************************************************)
GoogleItemRaises(item) ==
    ~({"title", "displayLink", "snippet", "link"} \subseteq DOMAIN item)

\* item['title'].split("|")[0].split("-")[0].strip()
NormTitle(t) ==
    CASE t = "Manager | Chase" -> "Manager"
      [] t = "Director - NY" -> "Director"
      [] OTHER -> t

GoogleListing(item, country_name) ==
    [ Title    |-> NormTitle(item.title),
      Location |-> country_name,
      Salary   |-> "Check Site",
      URL      |-> item.link,
      Source   |-> "Enterprise Direct" ]

\* the for loop of lines 168-178
RECURSIVE GoogleLoop(_, _)
GoogleLoop(items, country_name) ==
    IF items = <<>> \/ GoogleItemRaises(Head(items)) THEN <<>>
    ELSE <<GoogleListing(Head(items), country_name)>>
             \o GoogleLoop(Tail(items), country_name)

\* the for loop over domain_chunks, lines 160-179
RECURSIVE ChunkLoop(_, _)
ChunkLoop(chunks, country_name) ==
    IF chunks = <<>> THEN <<>>
    ELSE (IF Head(chunks).error THEN <<>>
          ELSE GoogleLoop(Head(chunks).items, country_name))
             \o ChunkLoop(Tail(chunks), country_name)

\* [raised, results].  Without GOOGLE_API_KEY the function returns [] before
\* anything else; build() is outside every try.
search_enterprise_google(term, country_name, key, world) ==
    IF ~key THEN [raised |-> FALSE, results |-> <<>>]
    ELSE IF world.build = "raise" THEN [raised |-> TRUE, results |-> <<>>]
    ELSE [raised |-> FALSE, results |-> ChunkLoop(world.chunks, country_name)]

(***************************************************************************)
(* run_hybrid_search                                                       *)
(***************************************************************************)
\* lines 200-203 and 209-212: append the jobs whose URL was not seen yet
\* the merge without the `not in seen_urls` test
MergeNoTest(acc, jobs) ==
    [seen |-> acc.seen \cup {jobs[i].URL : i \in 1..Len(jobs)},
     all |-> acc.all \o jobs]

RECURSIVE Merge(_, _)
Merge(acc, jobs) ==
    IF jobs = <<>> THEN acc
    ELSE LET j == Head(jobs) IN
         IF j.URL \notin acc.seen
         THEN Merge([seen |-> acc.seen \cup {j.URL}, all |-> Append(acc.all, j)],
                    Tail(jobs))
         ELSE Merge(acc, Tail(jobs))

\* lines 187-189
TargetCountries(c) == Take(Get(c, "countries", <<"us">>), CountryCap)
SpecificKeywords(c) == Take(Get(c, "specific_keywords", <<>>), KeywordCap)
BroadKeywords(c) == Take(Get(c, "broad_keywords", <<>>), KeywordCap)

\* The adapter calls of the loop nest of lines 193-212, in order.
TermCalls(adapter, terms, country) ==
    [i \in 1..Len(terms) |->
        [adapter |-> adapter, term |-> terms[i], country |-> country]]

RECURSIVE Schedule(_, _, _)
Schedule(countries, broad, specific) ==
    IF countries = <<>> THEN <<>>
    ELSE TermCalls("enterprise", broad, Head(countries))
           \o TermCalls("adzuna", specific, COUNTRY_MAP(Lower(Head(countries))))
           \o Schedule(Tail(countries), broad, specific)

CurSchedule == Schedule(target_countries, broad_keywords, specific_keywords)

(***************************************************************************)
(* ai_analyze_job and the scoring loop                                     *)
(***************************************************************************)
\* A JSON value in the 'score' field: an integer n, or a string (a value
\* that is no number, such as "85%").
IntV(n) == [tag |-> "int", n |-> n]
StrV == [tag |-> "str", n |-> 0]

ScoreValues == {IntV(40), IntV(41), IntV(90), IntV(150), StrV}

\* The scoring completion: the call raises, or json.loads yields a dict.
ScorerOutcomes ==
    { [raised |-> TRUE, content |-> None],
      [raised |-> FALSE, content |-> EmptyDict] }
        \cup {[raised |-> FALSE,
               content |-> [score |-> v, salary_est |-> "$120k", reason |-> "Fit"]] :
                  v \in ScoreValues}

ai_analyze_job(outcome) ==
    IF outcome.raised
    THEN [score |-> IntV(0), salary_est |-> "N/A", reason |-> "Error"]
    ELSE outcome.content

\* lines 279-281
ScoreJob(j, a) ==
    [ Title     |-> j.Title,
      Location  |-> j.Location,
      Salary    |-> j.Salary,
      URL       |-> j.URL,
      Source    |-> j.Source,
      Match     |-> Get(a, "score", IntV(0)),
      SalaryEst |-> Get(a, "salary_est", j.Salary),
      Reason    |-> Get(a, "reason", "") ]

(***************************************************************************)
(* Ranking and selection, line 285                                         *)
(***************************************************************************)
\* df['Match %'] > 40 raises TypeError when a score is no number
Comparable(rows) == \A i \in 1..Len(rows) : rows[i].Match.tag = "int"

Reverse(seq) == [i \in 1..Len(seq) |-> seq[Len(seq) + 1 - i]]

MaxOf(S) == CHOOSE m \in S : \A x \in S : x <= m

\* the rows scoring v, in the order the sort leaves equal keys
Group(rows, v, tie) ==
    LET Is(r) == r.Match.n = v
        g == SelectSeq(rows, Is)
    IN  IF tie = "stable" THEN g ELSE Reverse(g)

RECURSIVE SortGroups(_, _, _)
SortGroups(rows, values, tie) ==
    IF values = {} THEN <<>>
    ELSE LET m == MaxOf(values)
         IN  Group(rows, m, tie) \o SortGroups(rows, values \ {m}, tie)

\* sort_values(by='Match %', ascending=False).  The default sort kind is not
\* stable: the order of equal scores is one of TieOrders.
TieOrders == {"stable", "reversed"}

SortDescending(rows, tie) ==
    SortGroups(rows, {rows[i].Match.n : i \in 1..Len(rows)}, tie)

\* the filter with >= in place of >
AboveMinInclusive(rows) ==
    LET Keep(r) == r.Match.n >= MinScore IN SelectSeq(rows, Keep)

AboveMin(rows) ==
    LET Keep(r) == r.Match.n > MinScore IN SelectSeq(rows, Keep)

SelectRows(rows, tie) == Take(SortDescending(AboveMin(rows), tie), HeadCount)

(***************************************************************************)
(* The script: form, submitted handler                                     *)
(***************************************************************************)
NoCall ==
    [adapter |-> "none", buildFailed |-> FALSE, allFailed |-> FALSE,
     raised |-> FALSE, returned |-> <<>>]

Init ==
    /\ pc = "form"
    /\ googleKey \in BOOLEAN
    /\ statusLabel = ""
    /\ statusState = ""
    /\ successMsg = ""
    /\ planner = None
    /\ criteria = None
    /\ target_countries = <<>>
    /\ specific_keywords = <<>>
    /\ broad_keywords = <<>>
    /\ k = 1
    /\ all_results = <<>>
    /\ seen_urls = {}
    /\ produced = <<>>
    /\ calls = <<>>
    /\ lastCall = NoCall
    /\ raw_jobs = <<>>
    /\ analyzed = <<>>
    /\ scoring = <<>>
    /\ df = <<>>
    /\ emailLog = <<>>
    /\ displayed = <<>>

\* lines 258-260: the form is submitted, the status box opens
Submit ==
    /\ pc = "form"
    /\ pc' = "plan"
    /\ statusLabel' = "Initializing..."
    /\ statusState' = "running"
    /\ UNCHANGED <<googleKey, successMsg, planner, criteria, target_countries,
                   specific_keywords, broad_keywords, k, all_results, seen_urls,
                   produced, calls, lastCall, raw_jobs, analyzed, scoring, df,
                   emailLog, displayed>>

\* line 262
ParseUserIntent ==
    /\ pc = "plan"
    /\ \E outcome \in PlannerOutcomes :
          /\ planner' = outcome
          /\ criteria' = parse_user_intent(outcome)
    /\ pc' = "gate"
    /\ UNCHANGED <<googleKey, statusLabel, statusState, successMsg,
                   target_countries, specific_keywords, broad_keywords, k,
                   all_results, seen_urls, produced, calls, lastCall, raw_jobs,
                   analyzed, scoring, df, emailLog, displayed>>

\* lines 264-266 and 184-191: `if criteria:` has no else branch; the two
\* status.write lines index criteria and raise KeyError on a missing key;
\* then run_hybrid_search starts.
PlanGate ==
    /\ pc = "gate"
    /\ IF ~Truthy(criteria)
       THEN /\ pc' = "done"
            /\ UNCHANGED <<target_countries, specific_keywords, broad_keywords>>
       ELSE IF ~({"countries", "broad_keywords"} \subseteq DOMAIN criteria)
       THEN /\ pc' = "crashed_gate"
            /\ UNCHANGED <<target_countries, specific_keywords, broad_keywords>>
       ELSE /\ pc' = "search"
            /\ target_countries' = TargetCountries(criteria)
            /\ specific_keywords' = SpecificKeywords(criteria)
            /\ broad_keywords' = BroadKeywords(criteria)
    /\ UNCHANGED <<googleKey, statusLabel, statusState, successMsg, planner,
                   criteria, k, all_results, seen_urls, produced, calls,
                   lastCall, raw_jobs, analyzed, scoring, df, emailLog,
                   displayed>>

GoogleRequestFailed(resp) ==
    resp.error \/ \E i \in 1..Len(resp.items) : GoogleItemRaises(resp.items[i])

AdzunaRequestFailed(resp) ==
    resp.error \/ \E i \in 1..Len(resp.items) : AdzunaItemRaises(resp.items[i])

\* lines 197-203: one iteration of the broad-keyword loop
SearchEnterpriseGoogle ==
    /\ pc = "search"
    /\ k <= Len(CurSchedule)
    /\ CurSchedule[k].adapter = "enterprise"
    /\ \E world \in GoogleWorlds :
          LET call == CurSchedule[k]
              r == search_enterprise_google(call.term, call.country, googleKey, world)
              m == Merge([seen |-> seen_urls, all |-> all_results], r.results)
          IN  /\ calls' = Append(calls, call)
              /\ lastCall' =
                    [adapter |-> "enterprise",
                     buildFailed |-> googleKey /\ world.build = "raise",
                     allFailed |-> /\ googleKey
                                   /\ world.build = "ok"
                                   /\ \A i \in 1..Len(world.chunks) :
                                         GoogleRequestFailed(world.chunks[i]),
                     raised |-> r.raised,
                     returned |-> r.results]
              /\ IF r.raised
                 THEN /\ pc' = "crashed_search"
                      /\ UNCHANGED <<k, all_results, seen_urls, produced>>
                 ELSE /\ pc' = "search"
                      /\ k' = k + 1
                      /\ produced' = produced \o r.results
                      /\ all_results' = m.all
                      /\ seen_urls' = m.seen
    /\ UNCHANGED <<googleKey, statusLabel, statusState, successMsg, planner,
                   criteria, target_countries, specific_keywords,
                   broad_keywords, raw_jobs, analyzed, scoring, df, emailLog,
                   displayed>>

\* lines 206-212: one iteration of the specific-keyword loop
SearchAdzuna ==
    /\ pc = "search"
    /\ k <= Len(CurSchedule)
    /\ CurSchedule[k].adapter = "adzuna"
    /\ \E resp \in AdzunaResponses :
          LET call == CurSchedule[k]
              r == search_adzuna(call.term, call.country, resp)
              m == Merge([seen |-> seen_urls, all |-> all_results], r)
          IN  /\ calls' = Append(calls, call)
              /\ lastCall' =
                    [adapter |-> "adzuna",
                     buildFailed |-> FALSE,
                     allFailed |-> AdzunaRequestFailed(resp),
                     raised |-> FALSE,
                     returned |-> r]
              /\ k' = k + 1
              /\ produced' = produced \o r
              /\ all_results' = m.all
              /\ seen_urls' = m.seen
    /\ UNCHANGED <<pc, googleKey, statusLabel, statusState, successMsg,
                   planner, criteria, target_countries, specific_keywords,
                   broad_keywords, raw_jobs, analyzed, scoring, df, emailLog,
                   displayed>>

\* lines 215, 268-271, 299-300: run_hybrid_search returns; `if raw_jobs:`
SearchReturn ==
    /\ pc = "search"
    /\ k > Len(CurSchedule)
    /\ raw_jobs' = all_results
    /\ IF TruthyList(all_results)
       THEN /\ pc' = "score"
            /\ UNCHANGED <<statusLabel, statusState>>
       ELSE /\ pc' = "done"
            /\ statusLabel' = "No Jobs Found"
            /\ statusState' = "error"
    /\ UNCHANGED <<googleKey, successMsg, planner, criteria, target_countries,
                   specific_keywords, broad_keywords, k, all_results, seen_urls,
                   produced, calls, lastCall, analyzed, scoring, df, emailLog,
                   displayed>>

\* lines 275-282: one iteration of the scoring loop
AnalyzeJob ==
    /\ pc = "score"
    /\ Len(analyzed) < Len(raw_jobs)
    /\ \E outcome \in ScorerOutcomes :
          LET j == raw_jobs[Len(analyzed) + 1]
              a == ai_analyze_job(outcome)
          IN  /\ analyzed' = Append(analyzed, ScoreJob(j, a))
              /\ scoring' = Append(scoring, outcome.raised)
    /\ UNCHANGED <<pc, googleKey, statusLabel, statusState, successMsg,
                   planner, criteria, target_countries, specific_keywords,
                   broad_keywords, k, all_results, seen_urls, produced, calls,
                   lastCall, raw_jobs, df, emailLog, displayed>>

\* lines 284-287, 297-298: DataFrame, filter, sort, head; `if not df.empty:`
RankAndSelect ==
    /\ pc = "score"
    /\ Len(analyzed) = Len(raw_jobs)
    /\ IF ~Comparable(analyzed)
       THEN /\ pc' = "crashed_select"
            /\ UNCHANGED <<df, statusLabel, statusState>>
       ELSE \E tie \in TieOrders :
            /\ df' = SelectRows(analyzed, tie)
            /\ IF df' # <<>>
               THEN /\ pc' = "email"
                    /\ UNCHANGED <<statusLabel, statusState>>
               ELSE /\ pc' = "done"
                    /\ statusLabel' = "No high matches"
                    /\ statusState' = "error"
    /\ UNCHANGED <<googleKey, successMsg, planner, criteria, target_countries,
                   specific_keywords, broad_keywords, k, all_results, seen_urls,
                   produced, calls, lastCall, raw_jobs, analyzed, scoring,
                   emailLog, displayed>>

\* lines 288-296: the return value of send_jobs_email is dropped
SendJobsEmail ==
    /\ pc = "email"
    /\ \E sent \in BOOLEAN : emailLog' = Append(emailLog, sent)
    /\ statusLabel' = "Done!"
    /\ statusState' = "complete"
    /\ successMsg' = "Report Sent!"
    /\ displayed' = df
    /\ pc' = "done"
    /\ UNCHANGED <<googleKey, planner, criteria, target_countries,
                   specific_keywords, broad_keywords, k, all_results, seen_urls,
                   produced, calls, lastCall, raw_jobs, analyzed, scoring, df>>

Next ==
    \/ Submit
    \/ ParseUserIntent
    \/ PlanGate
    \/ SearchEnterpriseGoogle
    \/ SearchAdzuna
    \/ SearchReturn
    \/ AnalyzeJob
    \/ RankAndSelect
    \/ SendJobsEmail

Spec == Init /\ [][Next]_vars

(***************************************************************************)
(* Ranking and selection on long result lists: the run is picked up after  *)
(* the scoring loop, with a scored list made of NumRuns runs of equal      *)
(* scores, each run empty, one listing or RunLen listings long.            *)
(***************************************************************************)
NumRuns == 3

RunLens == {0, 1, RunLen}
RunScores == {40, 41, 90}

ScoredRun(n, score, base) ==
    [i \in 1..n |->
        [ Title     |-> "Architect",
          Location  |-> "US",
          Salary    |-> "0",
          URL       |-> ToString(base + i),
          Source    |-> "Adzuna",
          Match     |-> IntV(score),
          SalaryEst |-> "$120k",
          Reason    |-> "Fit" ]]

RECURSIVE ScoredRuns(_, _, _, _)
ScoredRuns(lens, scores, r, base) ==
    IF r > NumRuns THEN <<>>
    ELSE ScoredRun(lens[r], scores[r], base)
            \o ScoredRuns(lens, scores, r + 1, base + lens[r])

Unscored(r) ==
    [Title |-> r.Title, Location |-> r.Location, Salary |-> r.Salary,
     URL |-> r.URL, Source |-> r.Source]

InitSelect ==
    /\ pc = "score"
    /\ googleKey = FALSE
    /\ statusLabel = "Initializing..."
    /\ statusState = "running"
    /\ successMsg = ""
    /\ planner = [raised |-> FALSE,
                  content |-> [countries |-> <<"USA">>,
                               specific_keywords |-> <<"ad architect">>,
                               broad_keywords |-> <<>>]]
    /\ criteria = planner.content
    /\ target_countries = TargetCountries(criteria)
    /\ specific_keywords = SpecificKeywords(criteria)
    /\ broad_keywords = BroadKeywords(criteria)
    /\ \E lens \in [1..NumRuns -> RunLens], scores \in [1..NumRuns -> RunScores] :
          analyzed = ScoredRuns(lens, scores, 1, 0)
    /\ raw_jobs = [i \in 1..Len(analyzed) |-> Unscored(analyzed[i])]
    /\ scoring = [i \in 1..Len(analyzed) |-> FALSE]
    /\ all_results = raw_jobs
    /\ produced = raw_jobs
    /\ seen_urls = {raw_jobs[i].URL : i \in 1..Len(raw_jobs)}
    /\ k = Len(CurSchedule) + 1
    /\ calls = CurSchedule
    /\ lastCall = [adapter |-> "adzuna", buildFailed |-> FALSE,
                   allFailed |-> FALSE, raised |-> FALSE, returned |-> raw_jobs]
    /\ df = <<>>
    /\ emailLog = <<>>
    /\ displayed = <<>>

NextSelect ==
    \/ RankAndSelect
    \/ SendJobsEmail

SpecSelect == InitSelect /\ [][NextSelect]_vars

(***************************************************************************)
(* Properties                                                              *)
(***************************************************************************)
Crashed == pc \in {"crashed_gate", "crashed_search", "crashed_select"}
Terminal == pc = "done" \/ Crashed

\* run_hybrid_search has returned its list
SearchReturned ==
    \/ pc \in {"score", "email", "crashed_select"}
    \/ pc = "done" /\ statusLabel # "Initializing..."

PlannerCalled == "raised" \in DOMAIN planner
PlannerCallFailed == PlannerCalled /\ planner.raised

ExpectedShape(d) ==
    {"specific_keywords", "broad_keywords", "countries"} \subseteq DOMAIN d

PlanningFailed ==
    PlannerCalled /\ (planner.raised \/ ~ExpectedShape(planner.content))
PlanningSucceeded ==
    PlannerCalled /\ ~planner.raised /\ ExpectedShape(planner.content)

URLsOf(seq) == {seq[i].URL : i \in 1..Len(seq)}

\* the listings of seq that are the first of their URL, in order
RECURSIVE FirstOfEachURL(_, _)
FirstOfEachURL(seq, i) ==
    IF i > Len(seq) THEN <<>>
    ELSE (IF \E j \in 1..(i - 1) : seq[j].URL = seq[i].URL
          THEN <<>> ELSE <<seq[i]>>)
            \o FirstOfEachURL(seq, i + 1)

\* C1: the list run_hybrid_search returns holds each distinct URL the
\* adapters produced exactly once, the listing kept for a URL is the first
\* one produced in iteration order, and kept listings are in first-seen order.
C1_DedupFirstSeen ==
    SearchReturned =>
        /\ URLsOf(raw_jobs) = URLsOf(produced)
        /\ \A i, j \in 1..Len(raw_jobs) : i # j => raw_jobs[i].URL # raw_jobs[j].URL
        /\ raw_jobs = FirstOfEachURL(produced, 1)

\* a returned list whose adapters produced the same URL twice, with
\* different titles, and a second URL
C1_Witness ==
    /\ SearchReturned
    /\ Len(raw_jobs) = 2
    /\ \E i, j \in 1..Len(produced) :
          /\ i < j
          /\ produced[i].URL = produced[j].URL
          /\ produced[i].Title # produced[j].Title

\* C2: an adapter call in which client construction failed, or every request
\* failed or was malformed, does not raise, returns the empty list, and
\* run_hybrid_search goes on.
C2_AdapterNeverRaises ==
    (lastCall.buildFailed \/ lastCall.allFailed) =>
        /\ ~lastCall.raised
        /\ lastCall.returned = <<>>
        /\ pc # "crashed_search"

\* the source gave the listing a salary (Adzuna's salary_min; the adapters
\* fill in '0' and 'Check Site' when there is none)
HasSourceSalary(j) == j.Salary \notin {"0", "Check Site"}

\* C3: a listing whose scoring call failed is recorded with matchScore 0,
\* rationale "Error" and salaryEstimate = the listing's source salary when it
\* has one, otherwise "N/A"; the loop goes on with the next listing.
C3_ScoringFailureRecorded ==
    \A i \in 1..Len(analyzed) :
        scoring[i] =>
            /\ analyzed[i].Match = IntV(0)
            /\ analyzed[i].Reason = "Error"
            /\ analyzed[i].SalaryEst =
                  (IF HasSourceSalary(raw_jobs[i]) THEN raw_jobs[i].Salary ELSE "N/A")

Qualifies(r) == r.Match.tag = "int" /\ r.Match.n > MinScore

\* C4: the selected rows are rows of the scored list, each once, sorted
\* non-increasing by score, at most HeadCount of them, all scoring strictly
\* above MinScore; a qualifying row is left out only when HeadCount rows were
\* selected and none of them scores less than it.
C4_Selection ==
    pc \in {"email", "done"} =>
        /\ Len(df) <= HeadCount
        /\ \A i \in 1..Len(df) : df[i].Match.n > MinScore
        /\ \A i \in 1..Len(df) : \E j \in 1..Len(analyzed) : df[i] = analyzed[j]
        /\ \A i, j \in 1..Len(df) : i < j =>
              /\ df[i].Match.n >= df[j].Match.n
              /\ df[i].URL # df[j].URL
        /\ \A j \in 1..Len(analyzed) :
              (Qualifies(analyzed[j]) /\ analyzed[j].URL \notin URLsOf(df)) =>
                  /\ Len(df) = HeadCount
                  /\ \A i \in 1..Len(df) : df[i].Match.n >= analyzed[j].Match.n

\* more than HeadCount rows qualify, with different scores, next to rows
\* scoring exactly MinScore
C4_Witness ==
    /\ pc = "email"
    /\ Len(df) = HeadCount
    /\ Cardinality({j \in 1..Len(analyzed) : Qualifies(analyzed[j])}) > HeadCount
    /\ \E j \in 1..Len(analyzed) : analyzed[j].Match.n = MinScore
    /\ df[1].Match.n > df[HeadCount].Match.n
    /\ \E j \in 1..Len(analyzed) :
          Qualifies(analyzed[j]) /\ analyzed[j].URL \notin URLsOf(df)

\* C5: a run whose planner call failed, or whose plan lacks a key, ends
\* normally with a status other than "Initializing...".
C5_PlanningFailureVisible ==
    (Terminal /\ PlanningFailed) =>
        /\ pc = "done"
        /\ statusLabel # "Initializing..."

\* C6: when send_jobs_email returned False, neither "Report Sent!" nor a
\* completed status is shown, and the selected rows are displayed.
C6_DeliveryFailureReported ==
    (emailLog # <<>> /\ ~emailLog[Len(emailLog)]) =>
        /\ successMsg # "Report Sent!"
        /\ statusState # "complete"
        /\ displayed = df

\* C7: with a plan whose countries list is empty the search runs over the
\* one default location, as with the key absent, and calls the adapters for
\* it.
C7_EmptyCountriesDefault ==
    (SearchReturned /\ "countries" \in DOMAIN criteria /\ criteria.countries = <<>>) =>
        /\ target_countries = TargetCountries(EmptyDict)
        /\ calls = Schedule(TargetCountries(EmptyDict), broad_keywords,
                            specific_keywords)
        /\ calls # <<>>

\* C8: every recorded matchScore is an integer in 0..100.
C8_MatchScoreInRange ==
    \A i \in 1..Len(analyzed) :
        /\ analyzed[i].Match.tag = "int"
        /\ analyzed[i].Match.n \in 0..100

\* C9: no adapter is invoked in a run whose planner call failed; no scoring
\* call is made and no report is sent in a run whose search returned no
\* listing.
C9_StagesGated ==
    /\ PlannerCallFailed => calls = <<>>
    /\ (SearchReturned /\ raw_jobs = <<>>) =>
          /\ scoring = <<>>
          /\ analyzed = <<>>
          /\ emailLog = <<>>

\* the adapters were called, returned nothing, and the run ended
C9_Witness ==
    /\ pc = "done"
    /\ calls # <<>>
    /\ raw_jobs = <<>>
    /\ statusLabel = "No Jobs Found"

\* C10: a run whose planning succeeded ends normally in exactly one of the
\* three reports: "No Jobs Found" iff the search returned no listing, "No high
\* matches" iff it returned some and none scores above MinScore, the ranked
\* list otherwise.
C10_ThreeTerminalReports ==
    (Terminal /\ PlanningSucceeded) =>
        LET none == raw_jobs = <<>>
            low == raw_jobs # <<>> /\ \A i \in 1..Len(analyzed) : ~Qualifies(analyzed[i])
        IN  /\ pc = "done"
            /\ statusLabel \in {"No Jobs Found", "No high matches", "Done!"}
            /\ statusLabel = "No Jobs Found" <=> none
            /\ statusLabel = "No high matches" <=> low
            /\ statusLabel = "Done!" <=> (displayed # <<>> /\ displayed = df)

====
